---- MODULE Spec2Model ----
(***************************************************************************)
(* Model of src/addons/user-management.ts: the UserManagementAddon.        *)
(*                                                                         *)
(* Classes are heap objects; registries hold references to them, written   *)
(* here as their names.  The bodies of the three classes that the addon    *)
(* synthesizes are kept in sessionResourceType, userProcessorClass and     *)
(* sessionProcessorClass.  Functions (callbacks, prototype methods) are    *)
(* references too, and Apply gives the behaviour of each.                  *)
(***************************************************************************)
EXTENDS Integers, Sequences, FiniteSets, TLC

VARIABLES
    supplied,               \* the `options` argument of the constructor
    options,                \* this.options
    services,               \* app.services
    types,                  \* app.types
    processors,             \* app.processors
    sessionResourceType,    \* const sessionResourceType in install()
    userProcessorClass,     \* class returned by createUserProcessor()
    sessionProcessorClass,  \* class returned by createSessionProcessor()
    pc,                     \* position of install()
    baseline,               \* registries as they were when install() began
    last,                   \* the most recent invocation and its outcome
    console,                \* number of console.warn calls, per message
    calls,                  \* number of invocations made after install()
    logins                  \* number of invocations of SessionProcessor.login

vars == <<supplied, options, services, types, processors, sessionResourceType,
          userProcessorClass, sessionProcessorClass, pc, baseline, last,
          console, calls, logins>>

-----------------------------------------------------------------------------
(* Bounds *)

MaxCalls == 2

-----------------------------------------------------------------------------
(* JavaScript values *)

\* a key that the options object does not have
ABSENT == "<absent>"
\* the value undefined
UNDEF == "<undefined>"

\* the built-in classes imported at the top of the file
User == "User"
JsonApiUserProcessor == "JsonApiUserProcessor"
JsonApiSessionProcessor == "JsonApiSessionProcessor"

OptionKeys ==
    {"userResource", "userProcessor", "userEncryptPasswordCallback",
     "userLoginCallback", "userGenerateIdCallback", "userRolesProvider",
     "userPermissionsProvider", "usernameRequestParameter",
     "passwordRequestParameter"}

defaults ==
    [userResource                |-> User,
     userProcessor               |-> JsonApiUserProcessor,
     userRolesProvider           |-> "defaults.userRolesProvider",
     userPermissionsProvider     |-> "defaults.userPermissionsProvider",
     userLoginCallback           |-> "defaults.userLoginCallback",
     userEncryptPasswordCallback |-> "defaults.userEncryptPasswordCallback",
     usernameRequestParameter    |-> "username",
     passwordRequestParameter    |-> "password"]

\* The configurations a deployer can pass: every optional key is absent,
\* present with the value undefined, or present with a value of its type.
SuppliedOptions ==
    [userResource                : {ABSENT, "Account"},
     userProcessor               : {ABSENT, UNDEF, "CustomUserProcessor"},
     userEncryptPasswordCallback : {ABSENT, UNDEF, "deployerEncryptPassword"},
     userLoginCallback           : {ABSENT, UNDEF, "deployerLogin"},
     userGenerateIdCallback      : {ABSENT, UNDEF, "deployerGenerateId"},
     userRolesProvider           : {ABSENT, UNDEF, "deployerRoles"},
     userPermissionsProvider     : {ABSENT, UNDEF, "deployerPermissions"},
     usernameRequestParameter    : {ABSENT, "email"},
     passwordRequestParameter    : {ABSENT, "email", "username"}]

\* { ...defaults, ...options }: a key of options, whatever its value, replaces
\* the default; a key of neither object is read as undefined.
SpreadMerge(d, o) ==
    [k \in OptionKeys |->
        IF o[k] # ABSENT THEN o[k]
        ELSE IF k \in DOMAIN d THEN d[k]
        ELSE UNDEF]

-----------------------------------------------------------------------------
(* Requests *)

Passwords == {"s3cret", "letmein"}
Digest == [p \in Passwords |-> IF p = "s3cret" THEN "d1ge5t" ELSE "d2ge5t"]

\* op.data.attributes.password is all that the addon reads of an operation
Operations == [password : Passwords]
NoOp == [password |-> ""]

\* attribute sets (ResourceAttributes) are sets of <<key, value>>
StoredUsers == {{}, {<<"password", "d1ge5t">>}}
Users == {"alice", "bob"}

-----------------------------------------------------------------------------
(* Outcomes of a call *)

Outcome(kind, id, bool, attrs, list, invoked, warnLogin, warnEncrypt) ==
    [kind |-> kind, id |-> id, bool |-> bool, attrs |-> attrs, list |-> list,
     invoked |-> invoked, warnLogin |-> warnLogin, warnEncrypt |-> warnEncrypt]

Invocation(fn, op, attrs, user) ==
    [fn |-> fn, op |-> op, attrs |-> attrs, user |-> user]

Throw(invoked) == Outcome("throw", UNDEF, FALSE, {}, <<>>, invoked, 0, 0)
ReturnId(id, invoked) == Outcome("return", id, FALSE, {}, <<>>, invoked, 0, 0)
ReturnAttrs(a, invoked, w) == Outcome("return", UNDEF, FALSE, a, <<>>, invoked, 0, w)
ReturnBool(b, invoked, w) == Outcome("return", UNDEF, b, {}, <<>>, invoked, w, 0)
ReturnList(l, invoked) == Outcome("return", UNDEF, FALSE, {}, l, invoked, 0, 0)

defaultUserLoginCallback_silent(me) == ReturnBool(TRUE, me, 0)

\* defaults.userLoginCallback: warns, then permits
defaultUserLoginCallback(me) == ReturnBool(TRUE, me, 1)

\* defaults.userEncryptPasswordCallback: warns, then returns the plaintext
defaultUserEncryptPasswordCallback(me, op) ==
    ReturnAttrs({<<"password", op.password>>}, me, 1)

\* The behaviour of every function the addon can end up calling: fn(...)
\* with `this` bound to self.  Calling undefined throws a TypeError before
\* anything is invoked.
Apply(fn, self, op, attrs, user) ==
    LET me == <<Invocation(fn, op, attrs, user)>> IN
    CASE fn = UNDEF -> Throw(<<>>)
      [] fn = "defaults.userRolesProvider" -> ReturnList(<<>>, me)
      [] fn = "defaults.userPermissionsProvider" -> ReturnList(<<>>, me)
      [] fn = "defaults.userLoginCallback" -> defaultUserLoginCallback(me)
      [] fn = "defaults.userEncryptPasswordCallback" ->
            defaultUserEncryptPasswordCallback(me, op)
      [] fn = "generateIdCallback" -> ReturnId(UNDEF, me)
      [] fn = "encryptPasswordCallback" -> ReturnAttrs({}, me, 0)
      [] fn = "deployerEncryptPassword" ->
            ReturnAttrs({<<"password", Digest[op.password]>>}, me, 0)
      [] fn = "deployerLogin" ->
            IF attrs = {} THEN Throw(me)
            ELSE ReturnBool(<<"password", Digest[op.password]>> \in attrs, me, 0)
      [] fn = "deployerGenerateId" -> ReturnId("uuid", me)
      [] fn = "deployerRoles" ->
            ReturnList(IF user = "alice" THEN <<"admin">> ELSE <<"member">>, me)
      [] fn = "deployerPermissions" ->
            ReturnList(IF user = "alice" THEN <<"read", "write">> ELSE <<"read">>, me)
      [] fn = "CustomUserProcessor.prototype.generateId" ->
            ReturnId(IF self.resourceClass = User THEN "user-1" ELSE "account-1", me)
      [] fn = "CustomUserProcessor.prototype.encryptPassword" ->
            ReturnAttrs({<<"password", Digest[op.password]>>,
                         <<"resource", self.resourceClass>>}, me, 0)

\* userProcessor.prototype[name]
PrototypeMethod(class, name) ==
    IF class = "CustomUserProcessor"
    THEN "CustomUserProcessor.prototype." \o name
    ELSE UNDEF

-----------------------------------------------------------------------------
(* The three synthesized classes *)

NoResource == [name |-> UNDEF, type |-> UNDEF, attributes |-> {}, user |-> UNDEF]
NoProcessor ==
    [name |-> UNDEF, extends |-> UNDEF, resourceClass |-> UNDEF,
     generateId |-> UNDEF, encryptPassword |-> UNDEF, login |-> UNDEF]

\* a property key: undefined is turned into the string "undefined"
PropertyKey(v) == IF v = UNDEF THEN "undefined" ELSE v

\* one property of an object literal: a later key replaces an earlier one
Put(obj, k, v) == {e \in obj : e[1] # PropertyKey(k)} \cup {<<PropertyKey(k), v>>}

createSessionResource_fixedUsername(o) ==
    [name |-> "Session",
     type |-> "session",
     attributes |->
        Put(Put(Put({}, "token", "String"), "username", "String"),
            o.passwordRequestParameter, "Password"),
     user |-> o.userResource]

createSessionResource(o) ==
    [name |-> "Session",
     type |-> "session",
     attributes |->
        Put(Put(Put({}, "token", "String"),
                o.usernameRequestParameter, "String"),
            o.passwordRequestParameter, "Password"),
     user |-> o.userResource]

createUserProcessorThrows_never(o) == FALSE

\* `class ... extends options.userProcessor` and `userProcessor.prototype`
\* both throw a TypeError when userProcessor is undefined
createUserProcessorThrows(o) == o.userProcessor = UNDEF

createUserProcessor_keepsInitial(o) ==
    [name |-> "UserProcessor",
     extends |-> o.userProcessor,
     resourceClass |-> o.userResource,
     generateId |->
        IF o.userProcessor = JsonApiUserProcessor
        THEN IF o.userGenerateIdCallback # UNDEF
             THEN o.userGenerateIdCallback
             ELSE "generateIdCallback"
        ELSE PrototypeMethod(o.userProcessor, "generateId"),
     encryptPassword |->
        IF o.userProcessor = JsonApiUserProcessor
        THEN "encryptPasswordCallback"
        ELSE PrototypeMethod(o.userProcessor, "encryptPassword"),
     login |-> UNDEF]

createUserProcessor(o) ==
    LET generateIdCallback ==
            IF o.userProcessor = JsonApiUserProcessor
            THEN IF o.userGenerateIdCallback # UNDEF
                 THEN o.userGenerateIdCallback
                 ELSE "generateIdCallback"
            ELSE PrototypeMethod(o.userProcessor, "generateId")
        encryptPasswordCallback ==
            IF o.userProcessor = JsonApiUserProcessor
            THEN o.userEncryptPasswordCallback
            ELSE PrototypeMethod(o.userProcessor, "encryptPassword")
    IN [name |-> "UserProcessor",
        extends |-> o.userProcessor,
        resourceClass |-> o.userResource,
        generateId |-> generateIdCallback,
        encryptPassword |-> encryptPasswordCallback,
        login |-> UNDEF]

createSessionProcessor_userResource(o, resource) ==
    [name |-> "SessionProcessor",
     extends |-> JsonApiSessionProcessor,
     resourceClass |-> o.userResource,
     generateId |-> UNDEF,
     encryptPassword |-> UNDEF,
     login |-> "options.userLoginCallback"]

createSessionProcessor(o, resource) ==
    [name |-> "SessionProcessor",
     extends |-> JsonApiSessionProcessor,
     resourceClass |-> resource.name,
     generateId |-> UNDEF,
     encryptPassword |-> UNDEF,
     login |-> "options.userLoginCallback"]

Instance_unbound(class) == [class |-> class.extends, resourceClass |-> User]

\* an instance of a composed class, as far as the borrowed methods see it
Instance(class) == [class |-> class.name, resourceClass |-> class.resourceClass]

-----------------------------------------------------------------------------
(* Construction *)

NoCall == [fn |-> "none", op |-> NoOp, attrs |-> {}, user |-> "",
           outcome |-> Throw(<<>>)]

Registries ==
    {[types |-> <<>>, processors |-> <<>>],
     [types |-> <<"Article">>, processors |-> <<"ArticleProcessor">>]}

Init ==
    /\ supplied \in SuppliedOptions
    /\ options = SpreadMerge(defaults, supplied)
    /\ services = [roles |-> UNDEF, permissions |-> UNDEF]
    /\ \E r \in Registries : types = r.types /\ processors = r.processors
    /\ sessionResourceType = NoResource
    /\ userProcessorClass = NoProcessor
    /\ sessionProcessorClass = NoProcessor
    /\ pc = "constructed"
    /\ baseline = [types |-> <<>>, processors |-> <<>>]
    /\ last = NoCall
    /\ console = [login |-> 0, encrypt |-> 0]
    /\ calls = 0
    /\ logins = 0

-----------------------------------------------------------------------------
(* install(), statement by statement *)

InstallSessionResource ==
    /\ pc = "constructed"
    /\ sessionResourceType' = createSessionResource(options)
    /\ baseline' = [types |-> types, processors |-> processors]
    /\ pc' = "synthesized"
    /\ UNCHANGED <<supplied, options, services, types, processors,
                   userProcessorClass, sessionProcessorClass, last, console, calls, logins>>

InstallServices ==
    /\ pc = "synthesized"
    /\ services' = [roles |-> options.userRolesProvider,
                    permissions |-> options.userPermissionsProvider]
    /\ pc' = "services"
    /\ UNCHANGED <<supplied, options, types, processors, sessionResourceType,
                   userProcessorClass, sessionProcessorClass, baseline, last,
                   console, calls, logins>>

InstallTypes ==
    /\ pc = "services"
    /\ types' = types \o <<options.userResource, sessionResourceType.name>>
    /\ pc' = "types"
    /\ UNCHANGED <<supplied, options, services, processors, sessionResourceType,
                   userProcessorClass, sessionProcessorClass, baseline, last,
                   console, calls, logins>>

\* the arguments of push are evaluated left to right before push runs
InstallProcessors ==
    /\ pc = "types"
    /\ ~createUserProcessorThrows(options)
    /\ userProcessorClass' = createUserProcessor(options)
    /\ sessionProcessorClass' = createSessionProcessor(options, sessionResourceType)
    /\ processors' = processors \o <<userProcessorClass'.name, sessionProcessorClass'.name>>
    /\ pc' = "installed"
    /\ UNCHANGED <<supplied, options, services, types, sessionResourceType,
                   baseline, last, console, calls, logins>>

InstallProcessorsThrows ==
    /\ pc = "types"
    /\ createUserProcessorThrows(options)
    /\ pc' = "rejected"
    /\ UNCHANGED <<supplied, options, services, types, processors,
                   sessionResourceType, userProcessorClass,
                   sessionProcessorClass, baseline, last, console, calls, logins>>

-----------------------------------------------------------------------------
(* Invocations by the host framework *)

Record(fn, op, attrs, user, outcome) ==
    /\ last' = [fn |-> fn, op |-> op, attrs |-> attrs, user |-> user,
                outcome |-> outcome]
    /\ console' = [login |-> console.login + outcome.warnLogin,
                   encrypt |-> console.encrypt + outcome.warnEncrypt]
    /\ calls' = calls + 1
    /\ logins' = IF fn = "login" THEN logins + 1 ELSE logins
    /\ UNCHANGED <<supplied, options, services, types, processors,
                   sessionResourceType, userProcessorClass,
                   sessionProcessorClass, pc, baseline>>

\* UserProcessor.generateId: generateIdCallback.bind(this)()
generateId(class) ==
    Apply(class.generateId, Instance(class), NoOp, {}, "")

\* UserProcessor.encryptPassword: encryptPasswordCallback.bind(this)(op)
encryptPassword(class, op) ==
    Apply(class.encryptPassword, Instance(class), op, {}, "")

\* SessionProcessor.login: options.userLoginCallback(op, userDataSource)
login(class, o, op, userDataSource) ==
    Apply(o.userLoginCallback, o, op, userDataSource, "")

CallGenerateId ==
    /\ pc = "installed"
    /\ calls < MaxCalls
    /\ Record("generateId", NoOp, {}, "", generateId(userProcessorClass))

CallEncryptPassword ==
    /\ pc = "installed"
    /\ calls < MaxCalls
    /\ \E op \in Operations :
        Record("encryptPassword", op, {}, "", encryptPassword(userProcessorClass, op))

CallLogin ==
    /\ pc = "installed"
    /\ calls < MaxCalls
    /\ \E op \in Operations, attrs \in StoredUsers :
        Record("login", op, attrs, "",
               login(sessionProcessorClass, options, op, attrs))

\* app.services.roles(user), app.services.permissions(user)
CallRoles ==
    /\ pc \in {"installed", "rejected"}
    /\ calls < MaxCalls
    /\ \E user \in Users :
        Record("roles", NoOp, {}, user, Apply(services.roles, "app", NoOp, {}, user))

CallPermissions ==
    /\ pc \in {"installed", "rejected"}
    /\ calls < MaxCalls
    /\ \E user \in Users :
        Record("permissions", NoOp, {}, user,
               Apply(services.permissions, "app", NoOp, {}, user))

Next ==
    \/ InstallSessionResource
    \/ InstallServices
    \/ InstallTypes
    \/ InstallProcessors
    \/ InstallProcessorsThrows
    \/ CallGenerateId
    \/ CallEncryptPassword
    \/ CallLogin
    \/ CallRoles
    \/ CallPermissions

Spec == Init /\ [][Next]_vars

-----------------------------------------------------------------------------
(* Properties *)

Supplied(k) == supplied[k] \notin {ABSENT, UNDEF}
NoOverrides == \A k \in OptionKeys \ {"userResource"} : supplied[k] = ABSENT
Returned(fn) == last.fn = fn /\ last.outcome.kind = "return"

\* C1 (as stated): with the built-in userProcessor and no
\* userEncryptPasswordCallback key in the configuration, encryptPassword(op)
\* returns an empty attribute set.
C1_EmptyWhenOmitted ==
    (/\ pc = "installed"
     /\ options.userProcessor = JsonApiUserProcessor
     /\ supplied.userEncryptPasswordCallback = ABSENT
     /\ last.fn = "encryptPassword")
    => last.outcome.kind = "return" /\ last.outcome.attrs = {}

\* C1 (amended): with the built-in userProcessor and no
\* userEncryptPasswordCallback key in the configuration, encryptPassword(op)
\* calls the default callback once: it returns the plaintext password of op
\* under the key "password" and emits the plaintext warning.
C1_PlaintextWhenOmitted ==
    (/\ pc = "installed"
     /\ options.userProcessor = JsonApiUserProcessor
     /\ supplied.userEncryptPasswordCallback = ABSENT
     /\ last.fn = "encryptPassword")
    => /\ last.outcome.kind = "return"
       /\ last.outcome.attrs = {<<"password", last.op.password>>}
       /\ last.outcome.warnEncrypt = 1
       /\ Len(last.outcome.invoked) = 1
       /\ last.outcome.invoked[1].fn = "defaults.userEncryptPasswordCallback"

C1_Witness ==
    /\ pc = "installed"
    /\ options.userProcessor = JsonApiUserProcessor
    /\ supplied.userEncryptPasswordCallback = ABSENT
    /\ last.fn = "encryptPassword"
    /\ last.op.password = "letmein"
    /\ last.outcome.attrs = {<<"password", "letmein">>}

\* C2: with the built-in userProcessor, generateId() returns the result of
\* userGenerateIdCallback if one was supplied and undefined otherwise, and
\* encryptPassword(op) returns the result of userEncryptPasswordCallback(op)
\* if one was supplied and otherwise the result of the default callback, the
\* plaintext password under the key "password".
C2_BuiltInProcessorCallbacks ==
    (pc = "installed" /\ options.userProcessor = JsonApiUserProcessor)
    => /\ last.fn = "generateId" =>
            /\ last.outcome.kind = "return"
            /\ last.outcome.id =
                 IF Supplied("userGenerateIdCallback")
                 THEN Apply(supplied.userGenerateIdCallback, UNDEF, NoOp, {}, "").id
                 ELSE UNDEF
       /\ last.fn = "encryptPassword" =>
            /\ last.outcome.kind = "return"
            /\ last.outcome.attrs =
                 IF Supplied("userEncryptPasswordCallback")
                 THEN Apply(supplied.userEncryptPasswordCallback, UNDEF,
                            last.op, {}, "").attrs
                 ELSE {<<"password", last.op.password>>}

\* C3: with a custom userProcessor that implements generateId and
\* encryptPassword, no configured callback is invoked, and generateId() and
\* encryptPassword(op) give the results of the custom type's own methods run
\* on the composed processor instance.
C3_CustomProcessorBorrowed ==
    (pc = "installed" /\ options.userProcessor = "CustomUserProcessor")
    => LET this == [class |-> "UserProcessor", resourceClass |-> options.userResource]
           own == IF last.fn = "generateId"
                  THEN Apply("CustomUserProcessor.prototype.generateId",
                             this, NoOp, {}, "")
                  ELSE Apply("CustomUserProcessor.prototype.encryptPassword",
                             this, last.op, {}, "")
       IN last.fn \in {"generateId", "encryptPassword"} =>
            /\ last.outcome = own
            /\ \A i \in 1..Len(last.outcome.invoked) :
                 last.outcome.invoked[i].fn \notin
                    {options.userGenerateIdCallback,
                     options.userEncryptPasswordCallback,
                     "generateIdCallback", "encryptPasswordCallback"}

C3_Witness ==
    /\ pc = "installed"
    /\ options.userProcessor = "CustomUserProcessor"
    /\ options.userResource = "Account"
    /\ Supplied("userEncryptPasswordCallback")
    /\ Supplied("userGenerateIdCallback")
    /\ Returned("encryptPassword")
    /\ <<"resource", "Account">> \in last.outcome.attrs

\* C4: for every configuration, login(op, attrs) calls the configured login
\* callback exactly once, with (op, attrs), and its outcome is the outcome of
\* that callback.
C4_LoginPassThrough ==
    (pc = "installed" /\ last.fn = "login")
    => /\ Len(last.outcome.invoked) = 1
       /\ last.outcome.invoked[1] =
            Invocation(options.userLoginCallback, last.op, last.attrs, "")
       /\ last.outcome =
            Apply(options.userLoginCallback, options, last.op, last.attrs, "")

\* C5 (as stated): with no overrides, the login callback returns true on
\* every invocation, and whatever the number of login invocations the
\* unsafe-default warning has been emitted exactly once.
C5_WarnsOncePerInstall ==
    (pc = "installed" /\ NoOverrides /\ logins >= 1)
    => /\ last.fn = "login" => last.outcome.kind = "return" /\ last.outcome.bool
       /\ console.login = 1

\* C5 (amended): with no overrides, the login callback returns true on every
\* invocation, and the unsafe-default warning is emitted once per login
\* invocation.
C5_WarnsOncePerLogin ==
    (pc = "installed" /\ NoOverrides)
    => /\ last.fn = "login" => last.outcome.kind = "return" /\ last.outcome.bool
       /\ console.login = logins

C5_Witness ==
    /\ pc = "installed"
    /\ NoOverrides
    /\ logins = 2
    /\ console.login = 2
    /\ Returned("login")
    /\ last.attrs = {}

\* C6 (as stated): with usernameRequestParameter = "email", whatever the
\* other options are, the session schema has a key "email" of string type and
\* no key "username".
C6_EmailKeyAnyPassword ==
    (pc # "constructed" /\ options.usernameRequestParameter = "email")
    => /\ <<"email", "String">> \in sessionResourceType.attributes
       /\ \A e \in sessionResourceType.attributes : e[1] # "username"

\* C6 (amended): with usernameRequestParameter = "email" and a
\* passwordRequestParameter that is neither "email" nor "username", the
\* session schema has a key "email" of string type and no key "username".
C6_EmailKeyDistinctPassword ==
    (/\ pc # "constructed"
     /\ options.usernameRequestParameter = "email"
     /\ options.passwordRequestParameter \notin {"email", "username"})
    => /\ <<"email", "String">> \in sessionResourceType.attributes
       /\ \A e \in sessionResourceType.attributes : e[1] # "username"

C6_Witness ==
    /\ pc = "installed"
    /\ options.usernameRequestParameter = "email"
    /\ sessionResourceType.attributes =
         {<<"token", "String">>, <<"email", "String">>, <<"password", "Password">>}

\* C7: after construction every configuration field that has a default holds
\* the supplied value or the default and is never undefined.
C7_NoFieldUnset ==
    \A k \in DOMAIN defaults :
        /\ options[k] # UNDEF
        /\ options[k] \in {supplied[k], defaults[k]}

\* C8: with no overrides, a completed install() has appended exactly the user
\* entity type and the session entity to app.types, and exactly the user
\* processor and the session processor to app.processors, each bound by
\* resourceClass to its entity type; earlier entries are still in place.
C8_RegistersTwoAndTwo ==
    (pc = "installed" /\ NoOverrides)
    => /\ types = baseline.types \o <<options.userResource, sessionResourceType.name>>
       /\ processors = baseline.processors \o <<"UserProcessor", "SessionProcessor">>
       /\ userProcessorClass.name = "UserProcessor"
       /\ userProcessorClass.resourceClass = types[Len(baseline.types) + 1]
       /\ sessionProcessorClass.name = "SessionProcessor"
       /\ sessionProcessorClass.resourceClass = types[Len(baseline.types) + 2]
       /\ sessionResourceType.type = "session"

C8_Witness ==
    /\ pc = "installed"
    /\ NoOverrides
    /\ types = <<"Article", "Account", "Session">>
    /\ processors = <<"ArticleProcessor", "UserProcessor", "SessionProcessor">>

\* C9: after install(), services.roles(user) and services.permissions(user)
\* return what the configured provider returns for that user, and an empty
\* list when no provider is configured.
C9_ServicesResolve ==
    pc = "installed"
    => /\ last.fn = "roles" =>
            /\ last.outcome.kind = "return"
            /\ last.outcome.list =
                 IF Supplied("userRolesProvider")
                 THEN Apply(supplied.userRolesProvider, "app", NoOp, {}, last.user).list
                 ELSE <<>>
       /\ last.fn = "permissions" =>
            /\ last.outcome.kind = "return"
            /\ last.outcome.list =
                 IF Supplied("userPermissionsProvider")
                 THEN Apply(supplied.userPermissionsProvider, "app", NoOp, {},
                            last.user).list
                 ELSE <<>>

\* C10: install() synthesizes the session entity, then registers the two
\* services, then the two entity types, then composes and registers the two
\* processors; when composing the user processor fails, install() is
\* rejected, the services and entity types stay registered and no processor
\* has been added.
C10_OrderAndNoRollback ==
    LET registeredServices ==
            services = [roles |-> options.userRolesProvider,
                        permissions |-> options.userPermissionsProvider]
        registeredTypes ==
            types = baseline.types \o <<options.userResource, "Session">>
    IN /\ pc = "constructed" =>
            /\ sessionResourceType = NoResource
            /\ services = [roles |-> UNDEF, permissions |-> UNDEF]
       /\ pc = "synthesized" =>
            /\ sessionResourceType.name = "Session"
            /\ services = [roles |-> UNDEF, permissions |-> UNDEF]
            /\ types = baseline.types
            /\ processors = baseline.processors
       /\ pc = "services" =>
            /\ registeredServices
            /\ types = baseline.types
            /\ processors = baseline.processors
       /\ pc = "types" =>
            /\ registeredServices
            /\ registeredTypes
            /\ processors = baseline.processors
            /\ userProcessorClass = NoProcessor
       /\ pc = "installed" =>
            /\ registeredServices
            /\ registeredTypes
            /\ Len(processors) = Len(baseline.processors) + 2
            /\ options.userProcessor # UNDEF
       /\ pc = "rejected" =>
            /\ options.userProcessor = UNDEF
            /\ registeredServices
            /\ registeredTypes
            /\ processors = baseline.processors

C10_Witness ==
    /\ pc = "rejected"
    /\ options.userProcessor = UNDEF
    /\ services.roles = "deployerRoles"
    /\ types = <<"Article", "User", "Session">>
    /\ processors = <<"ArticleProcessor">>

====
